---- MODULE Spec2Model ----
(***************************************************************************)
(* skylane: the per-connection engine of a Wayland wire-protocol runtime.  *)
(* The model covers the object registry (Bundle), the frame parser and     *)
(* dispatcher (Connection::process_events / process_event) and the serial  *)
(* counter of Socket.                                                      *)
(***************************************************************************)
EXTENDS Integers, Sequences, FiniteSets, TLC

VARIABLES
    objects,    \* Bundle.objects: the HashMap, a set of [id, obj] entries
    nextObj,    \* identity of the next Box<Object> handed to the registry
    strong,     \* the Rc strong count of each object's Rc<RefCell<Box<Object>>>
    table,      \* the borrow state of the RefCell around the HashMap
    cells,      \* the objects whose RefCell is mutably borrowed
    fault,      \* the borrow violation that stopped the program, if one did
    wire,       \* messages the peer wrote that are still in the socket
    wireOff,    \* bytes of Head(wire) consumed by an earlier receive
    sentCount,  \* number of messages the peer has written
    pc,         \* position of the host: idle, loop, dispatch, done, drop, panic
    bytes,      \* process_events: the received part of the scratch buffer
    position,   \* process_events: offset of the next header
    header,     \* process_events: the header parsed last
    cur,        \* process_event: the handler whose dispatch is running
    pre,        \* the registry as the last handler lookup saw it
    ret,        \* the registry as it was when the last dispatch returned
    thrown,     \* the error the last dispatch returned, if it did
    result,     \* what the last process_events call returned
    log,        \* the dispatches of the current call, in order
    batch,      \* the peer messages the current receive was cut from
    framed,     \* the current receive is a whole number of peer messages
    cursor,     \* process_events: the position of bytes_buf
    fds,        \* process_events: the written part of the fds buffer
    fdsSize,    \* the fd count receive_message returned
    rights,     \* the rights-transfer records of the current receive
    fdcur,      \* process_events: the position of fds_buf
    fdreads,    \* the descriptors the handlers of this call read, in order
    sockets,    \* the Socket values alive: each one's next_serial cell
    serials,    \* the values get_next_serial returned, in call order
    controllers, \* the Controllers alive: the Bundle each one holds
    byCtl,      \* the objects that were added through a Controller
    env,        \* the process environment: XDG_RUNTIME_DIR, WAYLAND_DISPLAY
    resolved,   \* what get_default_socket_path returned last
    fs,         \* the socket paths that exist on the filesystem
    displays,   \* the DisplaySocket values made so far: fd, path, alive or not
    unlinked    \* the unlink of the last Drop: its path and its outcome

borrowVars == <<table, cells, fault>>
regVars == <<objects, nextObj, strong, borrowVars>>
wireVars == <<wire, wireOff, sentCount>>
curVars == <<cursor, fds, fdsSize, rights, fdcur, fdreads>>
callVars ==
    <<pc, bytes, position, header, cur, pre, ret, thrown, result, log, batch,
      framed, curVars>>
sockVars == <<sockets, serials>>
dispVars == <<env, resolved, fs, displays, unlinked>>
hostVars == <<controllers, byCtl, dispVars>>
vars == <<regVars, wireVars, callVars, sockVars, hostVars>>

----------------------------------------------------------------------------
(* u32 values. The model checker's integers are narrower than 32 bits, so *)
(* a u32 is kept as its two 16-bit halves; order, successor and the byte  *)
(* encoding are those of the 32-bit number hi * 2^16 + lo.                *)

Half == 2 ^ 16

u32(hi, lo) == [hi |-> hi, lo |-> lo]

Small(n) == u32(0, n)

MaxU32 == u32(Half - 1, Half - 1)

Lt(a, b) == a.hi < b.hi \/ (a.hi = b.hi /\ a.lo < b.lo)

Geq(a, b) == ~Lt(a, b)

\* What an overflowing addition yields in a build that panics on it.
Overflow == u32(0 - 1, 0 - 1)

\* x + 1 on a u32: at 2^32 - 1 a debug build panics, a release build wraps.
AddOne(x, bld) ==
    IF x.lo < Half - 1 THEN u32(x.hi, x.lo + 1)
    ELSE IF x.hi < Half - 1 THEN u32(x.hi + 1, 0)
    ELSE IF bld = "release" THEN Small(0) ELSE Overflow

\* object.rs: the root object's id, and the first id of the server's range
\* (0xFF000000).
DISPLAY_ID == Small(1)
SERVER_START_ID == u32(255 * 256, 0)

----------------------------------------------------------------------------
(* Bounds of the model. *)

MaxObjects == 2
MaxMsgs == 2
MaxSockets == 4
MaxSerials == 4
MaxDisplays == 2

(* Program constants. *)

BYTES_LEN == 1024
HEADER_SIZE == 8

Builds == {"debug", "release"}

(* Inputs. *)

\* ids the host and the tasks use in Spec, and the ids SpecBundle registers
HostIds == {DISPLAY_ID, Small(2)}
TaskIds == {Small(2)}
BundleIds == {Small(0), DISPLAY_ID, Small(2), SERVER_START_ID, MaxU32}

----------------------------------------------------------------------------
(* Wire encoding: native byte order, here little-endian. *)

U16Bytes(v) == <<v % 256, (v \div 256) % 256>>

U32Bytes(v) == <<v.lo % 256, v.lo \div 256, v.hi % 256, v.hi \div 256>>

Repeat(b, n) == [i \in 1..n |-> b]

\* A peer message: header fields, the number of bytes actually written, and
\* the value of its payload bytes.
Msg(oid, op, size, len, fill) ==
    [object_id |-> oid, opcode |-> op, size |-> size, len |-> len, fill |-> fill]

Encode(m) ==
    U32Bytes(m.object_id) \o U16Bytes(m.opcode) \o U16Bytes(m.size)
        \o Repeat(m.fill, m.len - HEADER_SIZE)

RECURSIVE Flatten(_)
Flatten(ms) == IF ms = <<>> THEN <<>> ELSE Encode(Head(ms)) \o Flatten(Tail(ms))

\* The scratch buffer is zeroed on every call; only the first Len(bytes)
\* bytes were written by the receive.
BufByte(buf, k) == IF k < Len(buf) THEN buf[k + 1] ELSE 0

read_u16(buf, p) == BufByte(buf, p) + 256 * BufByte(buf, p + 1)

read_u32(buf, p) ==
    u32(BufByte(buf, p + 2) + 256 * BufByte(buf, p + 3),
        BufByte(buf, p) + 256 * BufByte(buf, p + 1))

ReadHeader(buf, p) ==
    [object_id |-> read_u32(buf, p),
     opcode |-> read_u16(buf, p + 4),
     size |-> read_u16(buf, p + 6)]

----------------------------------------------------------------------------
(* Errors and tasks. *)

Err(kind, id) == [kind |-> kind, object_id |-> id]
Ok == Err("Ok", Small(0))
NoResult == Err("None", Small(0))
WrongObject(id) == Err("WrongObject", id)

TaskNone == [kind |-> "None", id |-> Small(0), obj |-> 0]
TaskCreate(id, obj) == [kind |-> "Create", id |-> id, obj |-> obj]
TaskDestroy(id) == [kind |-> "Destroy", id |-> id, obj |-> 0]

NoHeader == [object_id |-> Small(0), opcode |-> 0, size |-> 0]

\* What the peer may write: two messages whose size field is their length,
\* and one whose size field is 0.
PeerMsgs ==
    {Msg(DISPLAY_ID, 0, 8, 8, 2), Msg(Small(2), 1, 12, 12, 2),
     Msg(DISPLAY_ID, 1, 0, 8, 2)}

----------------------------------------------------------------------------
(* Bundle: the registry. *)

Keys(objs) == {e.id : e \in objs}

\* keys().max()
Max(S) == CHOOSE x \in S : \A y \in S : Geq(x, y)

Lookup(objs, id) == {e.obj : e \in {x \in objs : x.id = id}}

\* ObjectId::incremented: the successor of a 32-bit id, in build bld
incremented(id, bld) == AddOne(id, bld)

\* (mutant) the greatest id itself is handed out
get_next_available_client_object_id_Max(objs, bld) ==
    IF Keys(objs) # {}
    THEN IF Geq(Max(Keys(objs)), DISPLAY_ID)
         THEN Max(Keys(objs))
         ELSE DISPLAY_ID
    ELSE DISPLAY_ID

get_next_available_client_object_id(objs, bld) ==
    IF Keys(objs) # {}
    THEN IF Geq(Max(Keys(objs)), DISPLAY_ID)
         THEN incremented(Max(Keys(objs)), bld)
         ELSE DISPLAY_ID
    ELSE DISPLAY_ID

get_next_available_server_object_id(objs, bld) ==
    IF Keys(objs) # {}
    THEN IF Geq(Max(Keys(objs)), SERVER_START_ID)
         THEN incremented(Max(Keys(objs)), bld)
         ELSE SERVER_START_ID
    ELSE SERVER_START_ID

\* (mutant) the entry under id is kept beside the new one
add_object_KeepOld(objs, id, obj) == objs \cup {[id |-> id, obj |-> obj]}

\* HashMap::insert: the entry under id, if any, is replaced.
add_object(objs, id, obj) ==
    {e \in objs : e.id # id} \cup {[id |-> id, obj |-> obj]}

\* (mutant) every entry up to id is removed
remove_object_UpTo(objs, id) == {e \in objs : Lt(id, e.id)}

\* HashMap::remove
remove_object(objs, id) == {e \in objs : e.id # id}

\* (mutant) an unknown id falls back to some registered object
get_handler_Fallback(objs, id) ==
    IF objs # {}
    THEN [ok |-> TRUE,
          obj |-> (IF \E e \in objs : e.id = id
                   THEN CHOOSE e \in objs : e.id = id
                   ELSE CHOOSE e \in objs : TRUE).obj,
          err |-> Ok]
    ELSE [ok |-> FALSE, obj |-> 0, err |-> WrongObject(id)]

get_handler(objs, id) ==
    IF \E e \in objs : e.id = id
    THEN [ok |-> TRUE, obj |-> (CHOOSE e \in objs : e.id = id).obj,
          err |-> Ok]
    ELSE [ok |-> FALSE, obj |-> 0, err |-> WrongObject(id)]

\* Rc: dropping one reference to each object of hs; an object whose count
\* reaches 0 is dropped.
Release(cnt, hs) == [h \in DOMAIN cnt |-> IF h \in hs THEN cnt[h] - 1 ELSE cnt[h]]

\* (mutant) the handler is handed out without a reference of its own
Retain_Borrowed(cnt, h) == cnt

\* get_handler: object.clone() is Rc::clone, one more reference to h
Retain(cnt, h) == [cnt EXCEPT ![h] = @ + 1]

\* add_object: Rc::new for the new object (the next in cnt); insert drops
\* the map's reference to the object id had
StrongAfterAdd(cnt, objs, id) == Append(Release(cnt, Lookup(objs, id)), 1)

\* remove_object: remove drops the map's reference to the object of id
StrongAfterRemove(cnt, objs, id) == Release(cnt, Lookup(objs, id))

\* RefCell: no borrow outstanding, no violation seen
NoFault == [err |-> "none", during |-> "none"]

NoBorrow ==
    /\ table = "none"
    /\ cells = {}
    /\ fault = NoFault

\* (mutant) the Ref of the lookup is held while the handler runs
LookupBorrow_Held(t) == "shared"

\* get_handler: self.objects.borrow() is a temporary of the if let, so the
\* Ref is released when get_handler returns and the table is as it was
LookupBorrow(t) == t

----------------------------------------------------------------------------
(* The environment and paths. A value of an environment variable is unset, *)
(* set to bytes that are not valid Unicode, or set to a string; a string   *)
(* that names a path is absolute or relative and has components.           *)

Unset == [set |-> FALSE, unicode |-> TRUE, abs |-> FALSE, comps |-> <<>>]
NotUnicode == [set |-> TRUE, unicode |-> FALSE, abs |-> FALSE, comps |-> <<"0xff">>]
Str(abs, comps) == [set |-> TRUE, unicode |-> TRUE, abs |-> abs, comps |-> comps]

Path(abs, comps) == [abs |-> abs, comps |-> comps]
NoPath == Path(FALSE, <<>>)

\* PathBuf::from
PathFrom(v) == Path(v.abs, v.comps)

\* PathBuf::push: an absolute path replaces the buffer, a relative one is
\* appended to it
push(path, p) ==
    IF p.abs THEN Path(TRUE, p.comps) ELSE Path(path.abs, path.comps \o p.comps)

\* std::env::var: Err for a variable that is not set or not valid Unicode
env_var(e, name) ==
    IF ~e[name].set THEN [ok |-> FALSE, val |-> Unset, err |-> "NotPresent"]
    ELSE IF ~e[name].unicode THEN [ok |-> FALSE, val |-> Unset, err |-> "NotUnicode"]
    ELSE [ok |-> TRUE, val |-> e[name], err |-> ""]

\* From<std::env::VarError> for SkylaneError
FromVarError(e) == Err("Other", Small(0))

WAYLAND_0 == Str(FALSE, <<"wayland-0">>)

get_default_socket_path(e) ==
    LET dir == env_var(e, "XDG_RUNTIME_DIR")
        sock == env_var(e, "WAYLAND_DISPLAY")
    IN IF ~dir.ok
       THEN [ok |-> FALSE, path |-> NoPath, err |-> FromVarError(dir.err)]
       ELSE [ok |-> TRUE,
             path |-> push(PathFrom(dir.val), IF sock.ok THEN sock.val ELSE WAYLAND_0),
             err |-> Ok]

\* The environments the host may run in.
Envs ==
    [XDG_RUNTIME_DIR : {Unset, NotUnicode, Str(TRUE, <<"tmp">>)},
     WAYLAND_DISPLAY : {Unset, NotUnicode, Str(FALSE, <<"foo">>),
                        Str(TRUE, <<"run", "wl">>)}]

NoResolve == [ok |-> FALSE, path |-> NoPath, err |-> NoResult]
NoUnlink == [path |-> NoPath, errno |-> ""]

NoDisplay ==
    /\ env = [XDG_RUNTIME_DIR |-> Unset, WAYLAND_DISPLAY |-> Unset]
    /\ resolved = NoResolve
    /\ fs = {}
    /\ displays = <<>>
    /\ unlinked = NoUnlink

----------------------------------------------------------------------------
(* The initial state: Connection::new over a fresh Socket. *)

NoCall ==
    /\ bytes = <<>>
    /\ position = 0
    /\ header = NoHeader
    /\ cur = 0
    /\ pre = {}
    /\ ret = {}
    /\ thrown = NoResult
    /\ result = NoResult
    /\ log = <<>>
    /\ batch = <<>>
    /\ framed = FALSE
    /\ cursor = 0
    /\ fds = <<>>
    /\ fdsSize = 0
    /\ rights = <<>>
    /\ fdcur = 0
    /\ fdreads = <<>>

Init ==
    /\ objects = {}
    /\ nextObj = 1
    /\ strong = <<>>
    /\ NoBorrow
    /\ wire = <<>>
    /\ wireOff = 0
    /\ sentCount = 0
    /\ pc = "idle"
    /\ NoCall
    /\ sockets = <<[next_serial |-> Small(0), private |-> TRUE]>>
    /\ serials = <<>>
    /\ controllers = <<>>
    /\ byCtl = {}
    /\ NoDisplay

----------------------------------------------------------------------------
(* Registry operations. The host calls them between process_events calls  *)
(* (Connection, Controller); a handler calls them on the Bundle it is     *)
(* passed while its dispatch runs.                                        *)

CallerMayRun == pc \in {"idle", "dispatch"}

\* The ids a caller passes: the host one of ids, a handler its own id or
\* the id of the object it binds.
CallIds(ids) ==
    IF pc = "dispatch" THEN {header.object_id} \cup TaskIds ELSE ids

Panic ==
    /\ pc' = "panic"
    /\ UNCHANGED <<bytes, position, header, cur, pre, ret, thrown, result, log,
                   batch, framed, curVars>>

\* RefCell::borrow and borrow_mut panic when the borrow cannot be given
BorrowFault(e) ==
    /\ Panic
    /\ fault' = [err |-> e, during |-> pc]
    /\ UNCHANGED <<objects, nextObj, strong, table, cells, wireVars, sockVars,
                   hostVars>>

\* self.objects.borrow_mut().insert(..): the RefMut is a temporary of the
\* statement
AddObject(id) ==
    /\ CallerMayRun
    /\ nextObj <= MaxObjects
    /\ IF table # "none"
       THEN BorrowFault("BorrowMutError")
       ELSE /\ objects' = add_object(objects, id, nextObj)
            /\ nextObj' = nextObj + 1
            /\ strong' = StrongAfterAdd(strong, objects, id)
            /\ UNCHANGED <<borrowVars, wireVars, callVars, sockVars, hostVars>>

\* self.objects.borrow_mut().remove(&id)
RemoveObject(id) ==
    /\ CallerMayRun
    /\ IF table # "none"
       THEN BorrowFault("BorrowMutError")
       ELSE /\ objects' = remove_object(objects, id)
            /\ strong' = StrongAfterRemove(strong, objects, id)
            /\ UNCHANGED <<nextObj, borrowVars, wireVars, callVars, sockVars,
                           hostVars>>

\* get_next_available_*_object_id borrows the table, incremented may
\* overflow, add_object borrows the table mutably
AddNext(id) ==
    IF table = "mut"
    THEN BorrowFault("BorrowError")
    ELSE IF id = Overflow
    THEN Panic /\ UNCHANGED <<regVars, wireVars, sockVars, hostVars>>
    ELSE IF table # "none"
    THEN BorrowFault("BorrowMutError")
    ELSE /\ objects' = add_object(objects, id, nextObj)
         /\ nextObj' = nextObj + 1
         /\ strong' = StrongAfterAdd(strong, objects, id)
         /\ UNCHANGED <<borrowVars, wireVars, callVars, sockVars, hostVars>>

AddNextClientObject ==
    /\ CallerMayRun
    /\ nextObj <= MaxObjects
    /\ \E bld \in Builds : AddNext(get_next_available_client_object_id(objects, bld))

\* Only Bundle has add_next_server_object: a handler reaches it in dispatch.
AddNextServerObject ==
    /\ pc = "dispatch"
    /\ nextObj <= MaxObjects
    /\ \E bld \in Builds : AddNext(get_next_available_server_object_id(objects, bld))

----------------------------------------------------------------------------
(* The peer and the socket's byte stream. *)

PeerSend(m) ==
    /\ pc = "idle"
    /\ sentCount < MaxMsgs
    /\ wire' = Append(wire, m)
    /\ sentCount' = sentCount + 1
    /\ UNCHANGED <<regVars, wireOff, callVars, sockVars, hostVars>>

Min(a, b) == IF a < b THEN a ELSE b

Available == Len(Flatten(wire)) - wireOff

\* The byte counts one receive may return: all that is pending (up to the
\* buffer), or a shorter part of it: half a header, or eight bytes.
RecvCuts ==
    {n \in {4, HEADER_SIZE, Min(Available, BYTES_LEN)} :
        1 <= n /\ n <= Min(Available, BYTES_LEN)}

\* The pending messages once c bytes from the start of ms are consumed.
RECURSIVE DropBytes(_, _)
DropBytes(ms, c) ==
    IF ms = <<>> THEN [msgs |-> <<>>, off |-> 0]
    ELSE IF c >= Head(ms).len THEN DropBytes(Tail(ms), c - Head(ms).len)
    ELSE [msgs |-> ms, off |-> c]

\* The messages that c bytes from the start of ms reach into.
RECURSIVE Covered(_, _)
Covered(ms, c) ==
    IF ms = <<>> \/ c <= 0 THEN <<>>
    ELSE <<Head(ms)>> \o Covered(Tail(ms), c - Head(ms).len)

----------------------------------------------------------------------------
(* Connection::process_events *)

\* write_i32::<NativeEndian> of a descriptor
I32Bytes(fd) == U16Bytes(fd % Half) \o U16Bytes(fd \div Half)

\* read_i32::<NativeEndian>; the fds buffer is zeroed like the bytes buffer
read_i32(buf, p) == read_u16(buf, p) + Half * read_u16(buf, p + 2)

\* receive_message: for each ScmRights record, newfds[0] is written
RECURSIVE WriteFds(_)
WriteFds(rs) ==
    IF rs = <<>> THEN <<>> ELSE I32Bytes(Head(rs)[1]) \o WriteFds(Tail(rs))

\* The n descriptors a handler reads from the fds cursor at position p.
ReadFds(buf, p, n) == [k \in 1..n |-> read_i32(buf, p + 4 * (k - 1))]

\* receive_message succeeded with n bytes and the rights records rs
ProcessEventsReceive(n, rs) ==
    /\ pc = "idle"
    /\ n \in RecvCuts
    /\ cursor' = 0
    /\ fds' = WriteFds(rs)
    /\ fdsSize' = Len(rs)
    /\ rights' = rs
    /\ fdcur' = 0
    /\ fdreads' = <<>>
    /\ bytes' = SubSeq(Flatten(wire), wireOff + 1, wireOff + n)
    /\ wire' = DropBytes(wire, wireOff + n).msgs
    /\ wireOff' = DropBytes(wire, wireOff + n).off
    /\ batch' = Covered(wire, wireOff + n)
    /\ framed' = (wireOff = 0 /\ DropBytes(wire, n).off = 0)
    /\ position' = 0
    /\ log' = <<>>
    /\ pc' = "loop"
    /\ UNCHANGED <<regVars, sentCount, header, cur, pre, ret, thrown, result,
                   sockVars, hostVars>>

\* The errors recvmsg may fail with: would-block only when nothing is
\* pending on the non-blocking socket, a reset by the peer at any time.
RecvErrnos == IF Available = 0 THEN {"EAGAIN", "ECONNRESET"} ELSE {"ECONNRESET"}

\* (mutant) would-block is taken for an empty batch
RecvError_WouldBlockOk(errno) ==
    IF errno = "EAGAIN" THEN Ok ELSE Err("Socket", Small(0))

\* What process_events returns when recvmsg failed with errno: the ? in
\* receive_message converts by From<nix::Error>, the ? in process_events
\* hands it on
RecvError(errno) == Err("Socket", Small(0))

\* receive_message failed
ProcessEventsRecvFail ==
    /\ pc = "idle"
    /\ \E errno \in RecvErrnos : result' = RecvError(errno)
    /\ pc' = "done"
    /\ UNCHANGED <<regVars, wireVars, bytes, position, header, cur, pre, ret,
                   thrown, log, batch, framed, curVars, sockVars, hostVars>>

\* the while condition fails: Ok(())
ProcessEventsExit ==
    /\ pc = "loop"
    /\ ~(position < Len(bytes))
    /\ result' = Ok
    /\ pc' = "done"
    /\ UNCHANGED <<regVars, wireVars, bytes, position, header, cur, pre, ret,
                   thrown, log, batch, framed, curVars, sockVars, hostVars>>

\* (mutant) the loop steps over the header only
Advance_HeaderOnly(pos, hdr) == pos + HEADER_SIZE

\* The offset after a message: position += header.size
Advance(pos, hdr) == pos + hdr.size

\* (mutant) the header is read where the handler left the cursor
Seek_Kept(pos, c) == c

\* bytes_buf.seek(SeekFrom::Start(position)): the cursor after the seek
Seek(pos, c) == pos

\* (mutant) each dispatch gets a cursor at the start of the fds buffer
FdsCursor_Fresh(c) == 0

\* &mut fds_buf: the one cursor made before the loop goes to every dispatch
FdsCursor(c) == c

\* seek, read the header, and process_event up to the call of dispatch
ProcessEventsHeader ==
    /\ pc = "loop"
    /\ position < Len(bytes)
    /\ Len(log) < MaxMsgs  \* a call is followed for MaxMsgs dispatches
    /\ IF position + HEADER_SIZE > BYTES_LEN
       THEN \* the cursor runs out of the buffer: the read fails
            /\ result' = Err("IO", Small(0))
            /\ pc' = "done"
            /\ UNCHANGED <<header, cur, pre, strong, cursor, fdcur, borrowVars>>
       ELSE /\ header' = ReadHeader(bytes, Seek(position, cursor))
            /\ cursor' = Seek(position, cursor) + HEADER_SIZE
            /\ fdcur' = FdsCursor(fdcur)
            /\ pre' = objects
            /\ LET h == get_handler(objects, header'.object_id)
               IN IF h.ok
                  THEN \* handler_ref.borrow_mut() panics on a borrowed cell
                       /\ cur' = h.obj
                       /\ strong' = Retain(strong, h.obj)
                       /\ table' = LookupBorrow(table)
                       /\ cells' = cells \cup {h.obj}
                       /\ IF h.obj \in cells
                          THEN /\ pc' = "panic"
                               /\ fault' = [err |-> "BorrowMutError",
                                            during |-> pc]
                          ELSE /\ pc' = "dispatch"
                               /\ UNCHANGED fault
                       /\ UNCHANGED result
                  ELSE /\ result' = h.err
                       /\ pc' = "done"
                       /\ UNCHANGED <<cur, strong, borrowVars>>
    /\ UNCHANGED <<objects, nextObj, wireVars, bytes, position, ret, thrown,
                   log, batch, framed, fds, fdsSize, rights, fdreads, sockVars,
                   hostVars>>

\* (mutant) the task is dropped instead of applied
ApplyTask_Dropped(objs, task) == objs

\* (mutant) Destroy removes nothing
ApplyTask_NoDestroy(objs, task) ==
    IF task.kind = "Create"
    THEN {e \in objs : e.id # task.id} \cup {[id |-> task.id, obj |-> task.obj]}
    ELSE objs

\* process_event: the match on the Task the dispatch returned
ApplyTask(objs, task) ==
    IF task.kind = "Create" THEN add_object(objs, task.id, task.obj)
    ELSE IF task.kind = "Destroy" THEN remove_object(objs, task.id)
    ELSE objs

\* The strong counts once handler_ref is dropped at the end of the block
\* and the Task is applied.
StrongAfterTask(cnt, objs, held, task) ==
    IF task.kind = "Create" THEN StrongAfterAdd(Release(cnt, {held}), objs, task.id)
    ELSE IF task.kind = "Destroy"
    THEN StrongAfterRemove(Release(cnt, {held}), objs, task.id)
    ELSE Release(cnt, {held})

Tasks ==
    {TaskNone}
        \cup {TaskDestroy(id) : id \in TaskIds \cup {header.object_id}}
        \cup {TaskCreate(id, nextObj) : id \in {i \in TaskIds : nextObj <= MaxObjects}}

\* The payload bytes of a message with header hdr.
PayloadLen(hdr) == IF hdr.size > HEADER_SIZE THEN hdr.size - HEADER_SIZE ELSE 0

\* dispatch returns Ok(task), the handler having read nread bytes from
\* bytes_buf and nfds descriptors from fds_buf: the task is applied and the
\* loop goes on
DispatchReturn(task, nread, nfds) ==
    /\ pc = "dispatch"
    /\ cursor' = cursor + nread
    /\ fdcur' = fdcur + 4 * nfds
    /\ fdreads' = fdreads \o ReadFds(fds, fdcur, nfds)
    /\ objects' = ApplyTask(objects, task)
    /\ nextObj' = IF task.kind = "Create" THEN nextObj + 1 ELSE nextObj
    /\ strong' = StrongAfterTask(strong, objects, cur, task)
    /\ table' = "none"
    /\ cells' = cells \ {cur}
    /\ log' = Append(log, [hdr |-> header, obj |-> cur, pre |-> pre,
                           ret |-> objects, post |-> objects', task |-> task,
                           at |-> position, read |-> nread, nfds |-> nfds])
    /\ position' = Advance(position, header)
    /\ ret' = objects
    /\ cur' = 0
    /\ pc' = "loop"
    /\ UNCHANGED <<fault, wireVars, bytes, header, pre, thrown, result, batch,
                   framed, fds, fdsSize, rights, sockVars, hostVars>>

\* (mutant) the handler's error is swallowed
Propagate_Swallowed(e) == Ok

\* What process_event hands on when dispatch returns Err(e): the ? operator
Propagate(e) == e

\* dispatch returns Err(e): process_event and process_events return it
DispatchFail(e) ==
    /\ pc = "dispatch"
    /\ thrown' = e
    /\ ret' = objects
    /\ result' = Propagate(e)
    /\ strong' = Release(strong, {cur})
    /\ table' = "none"
    /\ cells' = cells \ {cur}
    /\ cur' = 0
    /\ pc' = "done"
    /\ UNCHANGED <<fault, objects, nextObj, wireVars, bytes, position, header, pre, log,
                   batch, framed, curVars, sockVars, hostVars>>

HandlerErrors == {Err("WrongOpcode", header.object_id)}

\* the host has seen the result
Finish ==
    /\ pc = "done"
    /\ pc' = "idle"
    /\ bytes' = <<>>
    /\ position' = 0
    /\ header' = NoHeader
    /\ cur' = 0
    /\ pre' = {}
    /\ ret' = {}
    /\ thrown' = NoResult
    /\ result' = NoResult
    /\ log' = <<>>
    /\ batch' = <<>>
    /\ framed' = FALSE
    /\ cursor' = 0
    /\ fds' = <<>>
    /\ fdsSize' = 0
    /\ rights' = <<>>
    /\ fdcur' = 0
    /\ fdreads' = <<>>
    /\ UNCHANGED <<regVars, wireVars, sockVars, hostVars>>

----------------------------------------------------------------------------
(* Socket: #[derive(Clone)] over fd, next_serial: Cell<u32>, logger. *)

\* Socket::clone: every field is copied, the cell by its value.
SocketClone(sock, private) ==
    [next_serial |-> sock.next_serial, private |-> private]

\* Bundle::get_socket (Connection::get_socket, Controller::get_socket):
\* a clone of the Bundle's socket for the caller
GetSocket(i) ==
    /\ pc # "panic"
    /\ Len(sockets) < MaxSockets
    /\ sockets[i].private
    /\ sockets' = Append(sockets, SocketClone(sockets[i], FALSE))
    /\ UNCHANGED <<regVars, wireVars, callVars, serials, hostVars>>

\* A Bundle: objects is an Rc, either to the table Connection::new made
\* (rc = 0, whose content is the variable objects) or to a table of the
\* Bundle's own, map; socket is the index of the Bundle's Socket.
ConnBundle == [rc |-> 0, map |-> {}, socket |-> 1]

\* The table a Bundle's Rc points to.
Deref(b) == IF b.rc = 0 THEN objects ELSE b.map

\* The Bundle that holds Socket i.
BundleOf(i) ==
    IF i = 1 THEN ConnBundle
    ELSE controllers[CHOOSE k \in DOMAIN controllers : controllers[k].socket = i]

\* (mutant) the new Bundle gets a copy of the table
duplicate_Copy(b, s) == [rc |-> s, map |-> Deref(b), socket |-> s]

\* BundleInternal::duplicate: objects.clone() is Rc::clone, the same table;
\* s is the clone of the socket
duplicate(b, s) == [rc |-> b.rc, map |-> b.map, socket |-> s]

\* Connection::get_controller (i = 1) and Controller::clone: a Controller
\* over the duplicate of the Bundle that holds Socket i
Duplicate(i) ==
    /\ pc \notin {"panic", "drop"}
    /\ Len(sockets) < MaxSockets
    /\ sockets[i].private
    /\ sockets' = Append(sockets, SocketClone(sockets[i], TRUE))
    /\ controllers' = Append(controllers, duplicate(BundleOf(i), Len(sockets) + 1))
    /\ UNCHANGED <<regVars, wireVars, callVars, serials, byCtl, dispVars>>

\* Controller::add_object on Controller k
ControllerAdd(k, id) ==
    IF table # "none"
    THEN BorrowFault("BorrowMutError")
    ELSE /\ IF controllers[k].rc = 0
            THEN /\ objects' = add_object(objects, id, nextObj)
                 /\ UNCHANGED controllers
            ELSE /\ controllers' =
                     [controllers EXCEPT ![k].map = add_object(@, id, nextObj)]
                 /\ UNCHANGED objects
         /\ nextObj' = nextObj + 1
         /\ strong' = StrongAfterAdd(strong, Deref(controllers[k]), id)
         /\ byCtl' = byCtl \cup {nextObj}
         /\ UNCHANGED <<borrowVars, wireVars, callVars, sockVars, dispVars>>

ControllerAddObject(k, id) ==
    /\ CallerMayRun
    /\ nextObj <= MaxObjects
    /\ ControllerAdd(k, id)

\* Controller::add_next_client_object on Controller k
ControllerAddNextClientObject(k) ==
    /\ CallerMayRun
    /\ nextObj <= MaxObjects
    /\ \E bld \in Builds :
        LET id == get_next_available_client_object_id(Deref(controllers[k]), bld)
        IN IF id = Overflow
           THEN Panic /\ UNCHANGED <<regVars, wireVars, sockVars, hostVars>>
           ELSE ControllerAddObject(k, id)

\* a caller clones a Socket it holds
CloneSocket(i) ==
    /\ pc # "panic"
    /\ Len(sockets) < MaxSockets
    /\ ~sockets[i].private
    /\ sockets' = Append(sockets, SocketClone(sockets[i], FALSE))
    /\ UNCHANGED <<regVars, wireVars, callVars, serials, hostVars>>

\* Socket::get_next_serial on a Socket the caller holds
GetNextSerial(i) ==
    /\ pc # "panic"
    /\ Len(serials) < MaxSerials
    /\ ~sockets[i].private
    /\ \E bld \in Builds :
        LET serial == sockets[i].next_serial
            next == AddOne(serial, bld)
        IN IF next = Overflow
           THEN Panic /\ UNCHANGED <<regVars, wireVars, sockVars, hostVars>>
           ELSE /\ sockets' = [sockets EXCEPT ![i].next_serial = next]
                /\ serials' = Append(serials, serial)
                /\ UNCHANGED <<regVars, wireVars, callVars, hostVars>>

NextSocket ==
    \/ \E i \in DOMAIN sockets : GetSocket(i)
    \/ \E i \in DOMAIN sockets : Duplicate(i)
    \/ \E i \in DOMAIN sockets : CloneSocket(i)
    \/ \E i \in DOMAIN sockets : GetNextSerial(i)

SpecSocket == Init /\ [][NextSocket]_vars

\* The counter of a Socket that has been in use: fresh, at the top of the
\* low half, and one call before 2^32 - 1.
SerialStarts == {Small(0), u32(0, Half - 1), u32(Half - 1, Half - 2)}

InitSerial ==
    /\ objects = {}
    /\ nextObj = 1
    /\ strong = <<>>
    /\ NoBorrow
    /\ wire = <<>>
    /\ wireOff = 0
    /\ sentCount = 0
    /\ pc = "idle"
    /\ NoCall
    /\ \E s \in SerialStarts : sockets = <<[next_serial |-> s, private |-> TRUE]>>
    /\ serials = <<>>
    /\ controllers = <<>>
    /\ byCtl = {}
    /\ NoDisplay

SpecSerial == InitSerial /\ [][NextSocket]_vars

----------------------------------------------------------------------------
(* DisplaySocket: #[derive(Clone)] over fd and path; Drop unlinks path.    *)

HostIdle == pc = "idle"

\* get_default_socket_path called by the host
GetDefaultSocketPath ==
    /\ HostIdle
    /\ resolved' = get_default_socket_path(env)
    /\ UNCHANGED <<regVars, wireVars, callVars, sockVars, controllers, byCtl,
                   env, fs, displays, unlinked>>

\* socket, bind and listen on path p: bind fails where p exists, and new
\* returns Err(Other); otherwise p is created and the DisplaySocket returned
Bind(p) ==
    IF p \in fs
    THEN UNCHANGED <<fs, displays>>
    ELSE /\ fs' = fs \cup {p}
         /\ displays' = Append(displays, [fd |-> Len(displays) + 1, path |-> p,
                                          live |-> TRUE])

\* DisplaySocket::new
DisplaySocketNew(p) ==
    /\ HostIdle
    /\ Len(displays) < MaxDisplays
    /\ Bind(p)
    /\ UNCHANGED <<regVars, wireVars, callVars, sockVars, controllers, byCtl,
                   env, resolved, unlinked>>

\* DisplaySocket::new_default
DisplaySocketNewDefault ==
    /\ HostIdle
    /\ Len(displays) < MaxDisplays
    /\ resolved' = get_default_socket_path(env)
    /\ IF resolved'.ok THEN Bind(resolved'.path) ELSE UNCHANGED <<fs, displays>>
    /\ UNCHANGED <<regVars, wireVars, callVars, sockVars, controllers, byCtl,
                   env, unlinked>>

\* DisplaySocket::clone: fd and path are copied
DisplaySocketClone(i) ==
    /\ HostIdle
    /\ Len(displays) < MaxDisplays
    /\ displays[i].live
    /\ displays' = Append(displays, [fd |-> displays[i].fd,
                                     path |-> displays[i].path, live |-> TRUE])
    /\ UNCHANGED <<regVars, wireVars, callVars, sockVars, controllers, byCtl,
                   env, resolved, fs, unlinked>>

\* What unlink(path) may return: it removes an existing path unless the
\* directory refuses it, and fails on a path that does not exist.
UnlinkOutcomes(files, path) ==
    IF path \in files THEN {"OK", "EACCES"} ELSE {"ENOENT"}

\* (mutant) the path is left in place
unlink_Kept(files, path) == files

\* nix::unistd::unlink that succeeds
unlink(files, path) == files \ {path}

\* Drop for DisplaySocket: let _ = unlink(path)
DisplaySocketDrop(i, errno) ==
    /\ HostIdle
    /\ displays[i].live
    /\ errno \in UnlinkOutcomes(fs, displays[i].path)
    /\ fs' = IF errno = "OK" THEN unlink(fs, displays[i].path) ELSE fs
    /\ displays' = [displays EXCEPT ![i].live = FALSE]
    /\ unlinked' = [path |-> displays[i].path, errno |-> errno]
    /\ UNCHANGED <<regVars, wireVars, callVars, sockVars, controllers, byCtl,
                   env, resolved>>

\* another process removes a socket path
OtherUnlink(p) ==
    /\ p \in fs
    /\ fs' = fs \ {p}
    /\ UNCHANGED <<regVars, wireVars, callVars, sockVars, controllers, byCtl,
                   env, resolved, displays, unlinked>>

\* The paths the host binds by name.
DisplayPaths == {Path(TRUE, <<"tmp", "wayland-0">>), Path(TRUE, <<"run", "wl">>)}

InitDisplay ==
    /\ objects = {}
    /\ nextObj = 1
    /\ strong = <<>>
    /\ NoBorrow
    /\ wire = <<>>
    /\ wireOff = 0
    /\ sentCount = 0
    /\ pc = "idle"
    /\ NoCall
    /\ sockets = <<[next_serial |-> Small(0), private |-> TRUE]>>
    /\ serials = <<>>
    /\ controllers = <<>>
    /\ byCtl = {}
    /\ env \in Envs
    /\ resolved = NoResolve
    /\ fs = {}
    /\ displays = <<>>
    /\ unlinked = NoUnlink

NextDisplay ==
    \/ GetDefaultSocketPath
    \/ \E p \in DisplayPaths : DisplaySocketNew(p)
    \/ DisplaySocketNewDefault
    \/ \E i \in DOMAIN displays : DisplaySocketClone(i)
    \/ \E i \in DOMAIN displays : \E errno \in {"OK", "EACCES", "ENOENT"} :
            DisplaySocketDrop(i, errno)
    \/ \E p \in fs : OtherUnlink(p)

SpecDisplay == InitDisplay /\ [][NextDisplay]_vars

----------------------------------------------------------------------------
(* The connection: the host, the peer and the handlers, with the ids the  *)
(* host registers and the messages the peer writes as parameters.         *)

\* A handler that reads its payload and no descriptor.
ExactReads == {PayloadLen(header)}
NoFds == {0}

\* reads and nfds are what a handler may read from the two cursors, recs
\* the rights records a receive may bring
StepWith(ids, msgs, reads, nfds, recs) ==
    \/ \E m \in msgs : PeerSend(m)
    \/ \E id \in CallIds(ids) : AddObject(id)
    \/ \E id \in CallIds(ids) : RemoveObject(id)
    \/ AddNextClientObject
    \/ AddNextServerObject
    \/ \E n \in RecvCuts : \E rs \in recs : ProcessEventsReceive(n, rs)
    \/ ProcessEventsRecvFail
    \/ ProcessEventsHeader
    \/ \E task \in Tasks : \E r \in reads : \E f \in nfds :
            DispatchReturn(task, r, f)
    \/ \E e \in HandlerErrors : DispatchFail(e)
    \/ ProcessEventsExit
    \/ Finish

Step(ids, msgs) == StepWith(ids, msgs, ExactReads, NoFds, {<<>>})

Next == Step(HostIds, PeerMsgs)

Spec == Init /\ [][Next]_vars

\* The two cursors: handlers that read fewer bytes than their payload, all
\* of it, or more, and no descriptor or one; receives that bring no rights
\* record, one, or two of which the first carries two descriptors.
CursorMsgs == {Msg(DISPLAY_ID, 0, 12, 12, 2), Msg(DISPLAY_ID, 1, 8, 8, 2)}
AnyReads == {0, 4, 8}
FdReads == {0, 1}
RightsSets == {<<>>, <<<<5>>>>, <<<<5, 6>>, <<7>>>>}

\* The host registers the display object between calls and receives all
\* that is pending; the handlers return no Task or fail.
NextCursor ==
    \/ \E m \in CursorMsgs : PeerSend(m)
    \/ HostIdle /\ AddObject(DISPLAY_ID)
    \/ \E rs \in RightsSets : ProcessEventsReceive(Min(Available, BYTES_LEN), rs)
    \/ ProcessEventsHeader
    \/ \E r \in AnyReads : \E f \in FdReads : DispatchReturn(TaskNone, r, f)
    \/ \E e \in HandlerErrors : DispatchFail(e)
    \/ ProcessEventsExit
    \/ Finish

SpecCursor == Init /\ [][NextCursor]_vars

\* The registry at the ends of the id space: ids below DISPLAY_ID, in the
\* server's range and at 2^32 - 1, with one well-formed message to dispatch.
NextBundle == Step(BundleIds, {Msg(DISPLAY_ID, 0, 8, 8, 2)})

SpecBundle == Init /\ [][NextBundle]_vars

\* The Connection with its Controllers: the host registers SharedIds
\* through either, and the peer writes messages for the object of id 2.
SharedIds == {Small(2)}

NextShared ==
    \/ Step(SharedIds, {Msg(Small(2), 0, 8, 8, 2)})
    \/ \E i \in DOMAIN sockets : Duplicate(i)
    \/ \E k \in DOMAIN controllers : \E id \in SharedIds : ControllerAddObject(k, id)
    \/ \E k \in DOMAIN controllers : ControllerAddNextClientObject(k)

SpecShared == Init /\ [][NextShared]_vars

----------------------------------------------------------------------------
(* Destructors. remove(&id) and insert(..) hand back the Rc the map held;  *)
(* it is a value of the statement and is dropped before the RefMut of      *)
(* borrow_mut(), which is a temporary of the same statement. When it was   *)
(* the last reference the object's destructor runs with the table mutably *)
(* borrowed, and the destructor is code of the host: it returns, or it     *)
(* calls an operation of a Controller it captured.                         *)

\* remove_object(id) up to the drop of the last reference to the object
RemoveObjectDrop(id) ==
    /\ CallerMayRun
    /\ table = "none"
    /\ \E e \in objects : e.id = id /\ strong[e.obj] = 1
    /\ objects' = remove_object(objects, id)
    /\ strong' = StrongAfterRemove(strong, objects, id)
    /\ table' = "mut"
    /\ pc' = "drop"
    /\ UNCHANGED <<nextObj, cells, fault, wireVars, bytes, position, header,
                   cur, pre, ret, thrown, result, log, batch, framed, curVars,
                   sockVars, hostVars>>

\* the destructor returns: the RefMut is dropped and remove_object returns
\* to the host or to the handler that called it
DropReturn ==
    /\ pc = "drop"
    /\ table' = "none"
    /\ pc' = IF cur = 0 THEN "idle" ELSE "dispatch"
    /\ UNCHANGED <<objects, nextObj, strong, cells, fault, wireVars, bytes,
                   position, header, cur, pre, ret, thrown, result, log, batch,
                   framed, curVars, sockVars, hostVars>>

\* the destructor calls Controller::add_object on Controller k
DropAddObject(k, id) ==
    /\ pc = "drop"
    /\ nextObj <= MaxObjects
    /\ ControllerAdd(k, id)

NextBorrow ==
    \/ NextShared
    \/ \E id \in CallIds(SharedIds) : RemoveObjectDrop(id)
    \/ DropReturn
    \/ \E k \in DOMAIN controllers : \E id \in SharedIds : DropAddObject(k, id)

SpecBorrow == Init /\ [][NextBorrow]_vars

----------------------------------------------------------------------------
(* Properties. *)

HeaderOf(m) == [object_id |-> m.object_id, opcode |-> m.opcode, size |-> m.size]

InCall == pc \in {"loop", "dispatch", "done"}

Last(q) == q[Len(q)]

\* The bytes received in this call are exactly the messages of batch, each
\* as long as its size field says.
WellFramed ==
    /\ InCall
    /\ framed
    /\ batch # <<>>
    /\ \A i \in 1..Len(batch) : batch[i].size = batch[i].len

\* Dispatch i of this call went to the handler registered under the id of
\* message i of the batch, with that message's header.
DispatchedAsSent(i) ==
    /\ log[i].hdr = HeaderOf(batch[i])
    /\ Lookup(log[i].pre, batch[i].object_id) = {log[i].obj}

\* C1: a batch that is a concatenation of messages is dispatched message by
\* message, once each and in wire order, to the handler registered under
\* each message's id and with that message's header, and process_events
\* returns Ok. The call ends otherwise only where the claim's premise ends:
\* at a message whose id is not registered, or at a dispatch that failed.
C1_FramingRoundTrip ==
    WellFramed =>
        /\ Len(log) <= Len(batch)
        /\ \A i \in 1..Len(log) : DispatchedAsSent(i)
        /\ pc = "done" =>
            \/ /\ result = Ok
               /\ Len(log) = Len(batch)
            \/ /\ Len(log) < Len(batch)
               /\ result = WrongObject(batch[Len(log) + 1].object_id)
               /\ Lookup(pre, batch[Len(log) + 1].object_id) = {}
            \/ /\ Len(log) < Len(batch)
               /\ thrown # NoResult
               /\ result.kind = "WrongOpcode"

\* the batch of sizes 8 and 12 was dispatched in order and Ok returned
C1_Witness ==
    /\ WellFramed
    /\ pc = "done"
    /\ result = Ok
    /\ Len(log) = 2
    /\ log[1].hdr = [object_id |-> DISPLAY_ID, opcode |-> 0, size |-> 8]
    /\ log[2].hdr = [object_id |-> Small(2), opcode |-> 1, size |-> 12]
    /\ log[1].obj # log[2].obj

\* C2: the Task of dispatch i is applied before the handler of message i+1
\* is looked up: a next message addressed to the id a Create made goes to
\* the new handler, and a next message addressed to the id a Destroy
\* removed is not dispatched but fails with WrongObject.
C2_TaskBeforeNextLookup ==
    /\ \A i \in 1..(Len(log) - 1) :
        /\ (log[i].task.kind = "Create"
                /\ log[i + 1].hdr.object_id = log[i].task.id)
            => log[i + 1].obj = log[i].task.obj
        /\ log[i].task.kind = "Destroy"
            => log[i + 1].hdr.object_id # log[i].task.id
    /\ (pc = "dispatch" /\ log # <<>>) =>
        /\ (Last(log).task.kind = "Create"
                /\ header.object_id = Last(log).task.id)
            => cur = Last(log).task.obj
        /\ Last(log).task.kind = "Destroy"
            => header.object_id # Last(log).task.id
    /\ (/\ pc = "done"
        /\ log # <<>>
        /\ thrown = NoResult
        /\ position < Len(bytes)
        /\ Last(log).task.kind = "Destroy"
        /\ ReadHeader(bytes, position).object_id = Last(log).task.id)
        => result = WrongObject(Last(log).task.id)

\* a message went to the handler the message before it created, where
\* another handler had been registered
C2_Witness ==
    /\ InCall
    /\ Len(log) = 2
    /\ log[1].task.kind = "Create"
    /\ log[2].hdr.object_id = log[1].task.id
    /\ log[2].obj = log[1].task.obj
    /\ Lookup(log[1].pre, log[1].task.id) # {}

\* a message addressed to the id the message before it destroyed failed
C2_WitnessDestroy ==
    /\ pc = "done"
    /\ log # <<>>
    /\ Last(log).task.kind = "Destroy"
    /\ Lookup(Last(log).ret, Last(log).task.id) # {}
    /\ result = WrongObject(Last(log).task.id)

\* C3 as stated: once process_events has returned Ok, every Create of the
\* batch is found under its id, every handler that destroyed itself is
\* gone, and a dispatch that returned None left the registry as it was
\* before that dispatch.
C3_AsStated ==
    (pc = "done" /\ result = Ok) =>
        \A i \in 1..Len(log) :
            /\ log[i].task.kind = "Create"
                => Lookup(objects, log[i].task.id) = {log[i].task.obj}
            /\ (log[i].task.kind = "Destroy"
                    /\ log[i].task.id = log[i].hdr.object_id)
                => Lookup(objects, log[i].task.id) = {}
            /\ log[i].task.kind = "None" => log[i].post = log[i].pre

OtherIdsKept(before, after, id) ==
    \A j \in (Keys(before) \cup Keys(after)) \ {id} :
        Lookup(after, j) = Lookup(before, j)

\* C3 (amended): when process_event is done with a message, and so when
\* process_events returns Ok after the last message of the batch: a Create
\* is found under its id, alone and with every other id as the dispatch
\* left it; a handler that destroyed itself is gone; after None the
\* registry is what it was when the dispatch returned.
C3_TaskApplied ==
    /\ \A i \in 1..Len(log) :
        /\ log[i].task.kind = "Create" =>
            /\ Lookup(log[i].post, log[i].task.id) = {log[i].task.obj}
            /\ OtherIdsKept(log[i].ret, log[i].post, log[i].task.id)
        /\ log[i].task.kind = "Destroy" =>
            /\ Lookup(log[i].post, log[i].task.id) = {}
            /\ ~get_handler(log[i].post, log[i].task.id).ok
            /\ OtherIdsKept(log[i].ret, log[i].post, log[i].task.id)
        /\ log[i].task.kind = "None" => log[i].post = log[i].ret
    /\ (pc = "done" /\ result = Ok /\ log # <<>>) => objects = Last(log).post

\* process_events returned Ok after a handler destroyed itself and after a
\* Create replaced an entry
C3_Witness ==
    /\ pc = "done"
    /\ result = Ok
    /\ Len(log) = 2
    /\ log[1].task.kind = "Create"
    /\ Lookup(log[1].ret, log[1].task.id) # {}
    /\ log[2].task.kind = "Destroy"
    /\ log[2].task.id = log[2].hdr.object_id
    /\ Lookup(log[2].ret, log[2].task.id) # {}

\* C4: a dispatch begins only on the handler registered under the header's
\* id; where none is registered, process_events returns WrongObject with
\* that id, the registry is as the lookup found it, and the failing message
\* and those after it are not dispatched.
C4_WrongObject ==
    /\ pc = "dispatch" => Lookup(pre, header.object_id) = {cur}
    /\ (pc = "done" /\ result.kind = "WrongObject") =>
        /\ header = ReadHeader(bytes, position)
        /\ result.object_id = header.object_id
        /\ Lookup(objects, header.object_id) = {}
        /\ objects = pre
        /\ log # <<>> => pre = Last(log).post
        /\ WellFramed =>
            /\ Len(log) < Len(batch)
            /\ header = HeaderOf(batch[Len(log) + 1])

\* the first message of a batch of two was unknown; neither was dispatched
C4_Witness ==
    /\ pc = "done"
    /\ result.kind = "WrongObject"
    /\ WellFramed
    /\ Len(batch) = 2
    /\ log = <<>>
    /\ objects # {}

\* C5: when the dispatch of message k fails, process_events returns the
\* handler's error, no Task is applied for k (the registry is as the
\* dispatch left it), the position stays at message k so nothing after it
\* is dispatched, and message k had seen the registry as the Tasks before
\* it left it.
C5_DispatchError ==
    (pc = "done" /\ thrown # NoResult) =>
        /\ result = thrown
        /\ objects = ret
        /\ header = ReadHeader(bytes, position)
        /\ log # <<>> => pre = Last(log).post
        /\ WellFramed =>
            /\ Len(log) < Len(batch)
            /\ header = HeaderOf(batch[Len(log) + 1])

\* the second dispatch failed after the first one's Create was applied
C5_Witness ==
    /\ pc = "done"
    /\ thrown # NoResult
    /\ Len(log) = 1
    /\ log[1].task.kind = "Create"
    /\ Lookup(objects, log[1].task.id) = {log[1].task.obj}
    /\ Len(batch) = 2

\* The number x + 1, which for x = 2^32 - 1 is no u32.
PlusOne(x) ==
    IF x.lo < Half - 1 THEN u32(x.hi, x.lo + 1) ELSE u32(x.hi + 1, 0)

\* The id the allocation rule names for a range that starts at floor.
Allocated(objs, floor) ==
    IF Keys(objs) = {} \/ Lt(Max(Keys(objs)), floor)
    THEN floor
    ELSE PlusOne(Max(Keys(objs)))

\* C6 as stated: in every reachable registry the next client id is
\* DISPLAY_ID when the registry is empty or its greatest id is below
\* DISPLAY_ID, and the greatest id plus one otherwise; the same for the
\* next server id with SERVER_START_ID.
C6_AllocationRule ==
    \A bld \in Builds :
        /\ get_next_available_client_object_id(objects, bld)
            = Allocated(objects, DISPLAY_ID)
        /\ get_next_available_server_object_id(objects, bld)
            = Allocated(objects, SERVER_START_ID)

InRange(id, low, high) == Geq(id, low) /\ Lt(id, high)

\* C7 as stated: in every reachable registry the next client id lies in
\* [DISPLAY_ID, SERVER_START_ID) and the next server id in
\* [SERVER_START_ID, 2^32).
C7_IdRanges ==
    \A bld \in Builds :
        /\ InRange(get_next_available_client_object_id(objects, bld),
                   DISPLAY_ID, SERVER_START_ID)
        /\ InRange(get_next_available_server_object_id(objects, bld),
                   SERVER_START_ID, PlusOne(MaxU32))

Handlers(objs) == {e.obj : e \in objs}

\* C8: every id of the registry has one handler, and add_object(id, h1)
\* followed by add_object(id, h2) leaves h2 under id, h1 nowhere in the
\* registry and every other id as it was.
C8_InsertOverwrites ==
    /\ \A e1, e2 \in objects : e1.id = e2.id => e1 = e2
    /\ \A id \in HostIds \cup Keys(objects) :
        LET h1 == nextObj
            h2 == nextObj + 1
            r1 == add_object(objects, id, h1)
            r2 == add_object(r1, id, h2)
        IN /\ Lookup(r1, id) = {h1}
           /\ OtherIdsKept(objects, r1, id)
           /\ Lookup(r2, id) = {h2}
           /\ get_handler(r2, id).obj = h2
           /\ h1 \notin Handlers(r2)
           /\ Handlers(objects) \ Handlers(r2) = Lookup(objects, id)
           /\ OtherIdsKept(objects, r2, id)

\* process_event's add_object put a handler under an id that had one
C8_Witness ==
    \E i \in 1..Len(log) :
        /\ log[i].task.kind = "Create"
        /\ Lookup(log[i].ret, log[i].task.id) # {}
        /\ Lookup(log[i].post, log[i].task.id) = {log[i].task.obj}
        /\ Lookup(log[i].ret, log[i].task.id) \cap Handlers(log[i].post) = {}

\* C9: remove_object(id) leaves a registry without id unchanged, removes
\* from a registry with id that entry and no other, after which the lookup
\* of id fails with WrongObject{id}; removing twice is removing once.
C9_RemoveIdempotent ==
    \A id \in HostIds \cup Keys(objects) :
        LET r == remove_object(objects, id)
        IN /\ Lookup(objects, id) = {} => r = objects
           /\ Lookup(r, id) = {}
           /\ get_handler(r, id) = [ok |-> FALSE, obj |-> 0, err |-> WrongObject(id)]
           /\ OtherIdsKept(objects, r, id)
           /\ remove_object(r, id) = r

\* process_event's remove_object removed a registered id, other entries
\* stayed, and a second remove_object of that id changed nothing
C9_Witness ==
    /\ Len(log) = 2
    /\ log[1].task.kind = "Destroy"
    /\ Lookup(log[1].ret, log[1].task.id) # {}
    /\ Lookup(log[1].post, log[1].task.id) = {}
    /\ log[1].post # {}
    /\ log[2].task = log[1].task
    /\ log[2].post = log[2].ret

\* C10 as stated: the values get_next_serial returns on a Socket and its
\* clones are 0, 1, 2, ... in call order, none returned twice.
C10_SharedCounter ==
    \A i \in 1..Len(serials) : serials[i] = Small(i - 1)

\* The successor of x in arithmetic modulo 2^32.
Wrapped(x) == IF x = MaxU32 THEN Small(0) ELSE PlusOne(x)

\* C11 as stated: every call of get_next_serial returns the value of the
\* Socket's counter and leaves the counter one higher modulo 2^32; no call
\* aborts.
C11_SerialWraps ==
    [][(serials' # serials \/ pc' # pc) =>
        \E i \in DOMAIN sockets :
            /\ serials' = Append(serials, sockets[i].next_serial)
            /\ sockets' = [sockets EXCEPT ![i].next_serial = Wrapped(@)]
            /\ pc' = pc]_vars

\* C12: the Connection and every Controller, however obtained, hold one
\* table: what a Controller sees is what the Connection's dispatch lookup
\* sees, id allocation gives every holder the id it gives the Connection,
\* and each id is dispatched to the object registered under it, whoever
\* registered it.
C12_OneRegistry ==
    /\ \A k \in DOMAIN controllers :
        /\ Deref(controllers[k]) = objects
        /\ \A bld \in Builds :
            get_next_available_client_object_id(Deref(controllers[k]), bld)
                = get_next_available_client_object_id(objects, bld)
        /\ \A e \in Deref(controllers[k]) :
            get_handler(objects, e.id) = [ok |-> TRUE, obj |-> e.obj, err |-> Ok]
    /\ (pc = "dispatch" /\ cur \in byCtl) => Lookup(pre, header.object_id) = {cur}

\* the Connection dispatches a message to an object that a clone of a
\* Controller registered, and a Controller's allocation has chosen the id
\* after the greatest one
C12_Witness ==
    /\ pc = "dispatch"
    /\ cur \in byCtl
    /\ Len(controllers) >= 2
    /\ \E e \in objects : e.id = Small(3) /\ e.obj \in byCtl

\* An object is alive while its Rc has a strong reference.
Alive(h) == strong[h] >= 1

\* C13: the handler being dispatched is alive for the whole dispatch, also
\* once it has removed its own entry through the Bundle; an object has one
\* reference while it is registered and one more while it is dispatched,
\* so it is dropped when both are gone; and when process_event is done
\* with a message whose handler returned Destroy for its own id or removed
\* itself during the dispatch, that handler is in the registry no more.
C13_AliveUntilReturn ==
    /\ pc = "dispatch" => Alive(cur)
    /\ \A h \in DOMAIN strong :
        strong[h] = (IF h \in Handlers(objects) THEN 1 ELSE 0)
                        + (IF pc = "dispatch" /\ cur = h THEN 1 ELSE 0)
    /\ \A i \in 1..Len(log) :
        (\/ log[i].task = TaskDestroy(log[i].hdr.object_id)
         \/ log[i].obj \notin Handlers(log[i].ret))
            => log[i].obj \notin Handlers(log[i].post)
    /\ (pc = "loop" /\ log # <<>> /\ Last(log).obj \notin Handlers(objects))
        => ~Alive(Last(log).obj)

\* one handler returned Destroy for its own id and was dropped after its
\* dispatch; the next one has removed its own entry through the Bundle and
\* is still running
C13_Witness ==
    /\ pc = "dispatch"
    /\ Len(log) = 1
    /\ log[1].task = TaskDestroy(log[1].hdr.object_id)
    /\ log[1].obj \in Handlers(log[1].ret)
    /\ ~Alive(log[1].obj)
    /\ Lookup(pre, header.object_id) = {cur}
    /\ cur \notin Handlers(objects)
    /\ Alive(cur)

\* PathBuf::join, which is push on a copy.
Join(dir, v) == push(PathFrom(dir), v)

\* C14 as stated: with XDG_RUNTIME_DIR set to a directory, the result is
\* that directory joined with the value of WAYLAND_DISPLAY when that
\* variable is set and with wayland-0 when it is not; with XDG_RUNTIME_DIR
\* unset the call fails with Other, whatever WAYLAND_DISPLAY is.
C14_DefaultSocketPath ==
    (resolved # NoResolve /\ env.XDG_RUNTIME_DIR.unicode) =>
        IF ~env.XDG_RUNTIME_DIR.set
        THEN ~resolved.ok /\ resolved.err.kind = "Other"
        ELSE /\ resolved.ok
             /\ resolved.path =
                    IF env.WAYLAND_DISPLAY.set
                    THEN Join(env.XDG_RUNTIME_DIR, env.WAYLAND_DISPLAY)
                    ELSE Join(env.XDG_RUNTIME_DIR, WAYLAND_0)

\* The step in which DisplaySocket i is destroyed.
Dropped(i) == displays[i].live /\ ~displays'[i].live

\* C15 as stated: once a DisplaySocket is destroyed its path does not
\* exist, and nothing is reported to the host.
C15_AsStated ==
    [][\A i \in DOMAIN displays :
        Dropped(i) =>
            /\ displays[i].path \notin fs'
            /\ pc' = pc
            /\ result' = result]_vars

\* C15 (amended): destroying a DisplaySocket calls unlink on its path once
\* and touches no other path; the path does not exist afterwards when the
\* unlink succeeded or failed because the path was gone already, and stays
\* when the unlink failed otherwise; no outcome is reported to the host.
C15_PathCleanup ==
    [][\A i \in DOMAIN displays :
        Dropped(i) =>
            /\ unlinked'.path = displays[i].path
            /\ unlinked'.errno \in {"OK", "ENOENT"} => displays[i].path \notin fs'
            /\ unlinked'.errno \notin {"OK", "ENOENT"} => fs' = fs
            /\ fs \ fs' \subseteq {displays[i].path}
            /\ fs' \subseteq fs
            /\ pc' = pc
            /\ result' = result]_vars

\* a DisplaySocket and its clone were destroyed: the second unlink found
\* the path gone, and the host saw nothing of it
C15_Witness ==
    /\ Len(displays) = 2
    /\ ~displays[1].live
    /\ ~displays[2].live
    /\ displays[1].path = displays[2].path
    /\ unlinked = [path |-> displays[2].path, errno |-> "ENOENT"]
    /\ displays[2].path \notin fs
    /\ pc = "idle"
    /\ result = NoResult

\* C16: a process_events call ends at its receive exactly when the receive
\* failed; it then returns a Socket error, would-block included, no handler
\* was looked up or dispatched, and the registry, the objects' reference
\* counts and the pending bytes are as they were.
C16_ReceiveFails ==
    [][/\ (pc = "idle" /\ pc' = "done") =>
            /\ result'.kind = "Socket"
            /\ objects' = objects
            /\ strong' = strong
            /\ nextObj' = nextObj
            /\ wire' = wire
            /\ wireOff' = wireOff
            /\ log' = <<>>
            /\ cur' = 0
            /\ thrown' = NoResult
       /\ (pc # "done" /\ pc' = "done" /\ result'.kind = "Socket") => pc = "idle"
      ]_vars

\* process_events returned a Socket error on a connection with registered
\* objects: nothing was dispatched
C16_Witness ==
    /\ pc = "done"
    /\ result.kind = "Socket"
    /\ Available = 0
    /\ objects # {}
    /\ log = <<>>
    /\ cur = 0

\* The offset of the header after dispatch i of this call.
NextOffset(i) == IF i = 0 THEN 0 ELSE log[i].at + log[i].hdr.size

\* C17: the header of each dispatch was parsed at the offset of the header
\* before it plus that header's size, and the next header is parsed there
\* too, whatever the handlers read from the payload cursor.
C17_HeaderSizeRules ==
    /\ \A i \in 1..Len(log) :
        /\ log[i].at = NextOffset(i - 1)
        /\ log[i].hdr = ReadHeader(bytes, log[i].at)
    /\ pc \in {"loop", "dispatch"} => position = NextOffset(Len(log))
    /\ (pc = "dispatch" \/ (pc = "done" /\ result.kind = "WrongObject"))
        => header = ReadHeader(bytes, NextOffset(Len(log)))
    /\ pc = "dispatch" => cursor = position + HEADER_SIZE

\* of two messages the first handler read less than its payload and the
\* second more than its own, and each was dispatched with its own header
C17_Witness ==
    /\ WellFramed
    /\ Len(log) = 2
    /\ log[1].read < PayloadLen(log[1].hdr)
    /\ log[2].read > PayloadLen(log[2].hdr)
    /\ log[1].hdr = HeaderOf(batch[1])
    /\ log[2].hdr = HeaderOf(batch[2])
    /\ cursor > position

RECURSIVE SumFds(_)
SumFds(q) == IF q = <<>> THEN 0 ELSE Head(q).nfds + SumFds(Tail(q))

\* C18: the fd count receive_message returned is the number of rights
\* records; the fds cursor stands after the descriptors the handlers of
\* the call have read so far, never back at the start; and the k-th
\* descriptor read over the call is the first descriptor of the k-th
\* record (past the last record the zeroed buffer reads as 0).
C18_FdCursor ==
    InCall =>
        /\ fdsSize = Len(rights)
        /\ Len(fdreads) = SumFds(log)
        /\ pc \in {"loop", "dispatch"} => fdcur = 4 * Len(fdreads)
        /\ \A k \in 1..Len(fdreads) :
            fdreads[k] = IF k <= Len(rights) THEN rights[k][1] ELSE 0

\* two records came, the first with two descriptors; the handlers of the
\* two messages read one descriptor each
C18_Witness ==
    /\ Len(rights) = 2
    /\ Len(rights[1]) = 2
    /\ Len(log) = 2
    /\ log[1].nfds = 1
    /\ log[2].nfds = 1
    /\ fdreads = <<rights[1][1], rights[2][1]>>
    /\ fdsSize = 2

\* C19 as stated: every iteration of the parse loop moves the position
\* forward, so a batch of N bytes is dispatched to at most N handlers.
C19_LoopProgress ==
    /\ \A i \in 1..Len(log) : NextOffset(i) > log[i].at
    /\ InCall => Len(log) <= Len(bytes)

\* add_object of a new object under id leaves what was registered and adds
\* one entry, that of the new object under id.
AddsFresh(objs, id, obj) ==
    LET r == add_object(objs, id, obj)
    IN /\ id \notin Keys(objs)
       /\ objs \subseteq r
       /\ r \ objs = {[id |-> id, obj |-> obj]}
       /\ Cardinality(r) = Cardinality(objs) + 1
       /\ get_handler(r, id) = [ok |-> TRUE, obj |-> obj, err |-> Ok]

\* C20: on every reachable registry whose greatest id is below 2^32 - 1,
\* add_next_client_object and add_next_server_object register the new
\* object under an id that was free: nothing is replaced, the registry
\* grows by that one entry, and the lookup of the id yields the new object.
C20_AddNextFresh ==
    (Keys(objects) = {} \/ Max(Keys(objects)) # MaxU32) =>
        \A bld \in Builds :
            /\ AddsFresh(objects, get_next_available_client_object_id(objects, bld),
                         nextObj)
            /\ AddsFresh(objects, get_next_available_server_object_id(objects, bld),
                         nextObj)

\* add_next_client_object gave the id after 2, which only it hands out,
\* and both objects are registered
C20_Witness ==
    /\ Keys(objects) = {Small(2), Small(3)}
    /\ Cardinality(objects) = 2
    /\ Cardinality(Handlers(objects)) = 2

\* C21 as stated: a header is parsed at an offset only when its eight
\* bytes lie within the bytes this call received, so every dispatched
\* header is made of received bytes alone.
C21_HeaderWithinReceive ==
    /\ \A i \in 1..Len(log) : log[i].at + HEADER_SIZE <= Len(bytes)
    /\ pc = "dispatch" => position + HEADER_SIZE <= Len(bytes)

\* C22 as stated: no sequence of operations ends in a borrow violation.
C22_AsStated == fault = NoFault

\* C22: the table and the cells are never borrowed twice by an operation of
\* the host or of a running handler. While a dispatch runs only the cell of
\* its handler is mutably borrowed and the table is not borrowed, so what
\* the handler does to the registry is done at once; between dispatches
\* nothing is borrowed. The one violation there is comes from a destructor
\* that remove_object runs with the table mutably borrowed and that calls
\* back into the registry.
C22_BorrowDiscipline ==
    /\ table \in {"none", "shared", "mut"}
    /\ pc = "dispatch" => table = "none" /\ cells = {cur}
    /\ pc \in {"idle", "loop", "done"} => table = "none" /\ cells = {}
    /\ pc = "drop" => table = "mut" /\ cells \subseteq {cur}
    /\ fault # NoFault =>
        /\ pc = "panic"
        /\ fault = [err |-> "BorrowMutError", during |-> "drop"]
    /\ pc # "panic" => fault = NoFault

\* a handler added an object through a Controller while its dispatch ran:
\* the registry has it already and nothing faulted
C22_Witness ==
    /\ pc = "dispatch"
    /\ cells = {cur}
    /\ table = "none"
    /\ fault = NoFault
    /\ \E e \in objects : e.obj \in byCtl /\ e \notin pre

\* The length in bytes of the messages ms on the wire.
RECURSIVE StreamLen(_)
StreamLen(ms) == IF ms = <<>> THEN 0 ELSE Head(ms).len + StreamLen(Tail(ms))

\* Where the bytes of this call's receive start, counted from the first
\* byte of batch[1]: the receive ends at the end of the batch or, when it
\* cut the last message, wireOff bytes into it.
ReceiveStart ==
    LET end == IF wireOff > 0
               THEN StreamLen(batch) - (batch[Len(batch)].len - wireOff)
               ELSE StreamLen(batch)
    IN end - Len(bytes)

\* The offsets of bytes at which this call has read a header so far.
ParsedAt ==
    {log[i].at : i \in 1..Len(log)}
        \cup (IF \/ pc = "dispatch"
                 \/ pc = "done" /\ result = WrongObject(header.object_id)
              THEN {position} ELSE {})

\* C23 as stated: also when a receive ends or starts in the middle of a
\* message of the peer's stream, a header is read only where a message of
\* the stream starts, so the rest of a cut message is never taken for a
\* header.
C23_HeadersAtMessageStarts ==
    \A p \in ParsedAt :
        \E j \in 1..Len(batch) :
            ReceiveStart + p = StreamLen(SubSeq(batch, 1, j - 1))

\* C24 as stated: dropping a DisplaySocket leaves its path on the
\* filesystem while another DisplaySocket value for the same listening
\* descriptor, a clone, is alive.
C24_PathWhileCloneAlive ==
    [][\A i \in DOMAIN displays :
        /\ Dropped(i)
        /\ displays[i].path \in fs
        /\ \E j \in DOMAIN displays :
                /\ j # i
                /\ displays[j].live
                /\ displays[j].fd = displays[i].fd
        => displays[i].path \in fs']_vars
====
